---------------------------- MODULE Spec2Model ----------------------------
(***************************************************************************)
(* A model of src/tools.py (class Tools): PDF text extraction, whitespace  *)
(* normalisation and chunking, batched embedding, and the warehouse        *)
(* operations document_exists / push_df_to_db / push_feedback.             *)
(*                                                                         *)
(* Strings are kept exactly, in run-length form: a string is a sequence of *)
(* runs [ch, n] (n copies of the character ch), no two neighbouring runs   *)
(* with the same character and no empty run.  Every string operation the   *)
(* code uses (len, replace, startswith, slicing, strip, re.sub, split,     *)
(* join) is computed on that form.                                         *)
(***************************************************************************)
EXTENDS Integers, Sequences, FiniteSets, TLC

VARIABLES
    pdf,            \* SpecPdf: the file handed to pdf_reader
    pdfResult,      \* SpecPdf: what the call to pdf_reader produced
    tools,          \* the Tools instance: self.chunk_size, self.overlap
    chunkIn,        \* SpecChunk: the text and document_name handed to text_chunker
    chunkOut,       \* SpecChunk: the call made and what it produced
    chunkTable,     \* Spec: rows of the warehouse chunk table, in insertion order
    feedbackTable,  \* Spec: rows of the warehouse feedback table, in insertion order
    caller,         \* Spec: per caller, the position in its ingestion sequence
    last,           \* Spec: the last call made on the class and its outcome
    nextUuid,       \* Spec: number of uuid4() values drawn so far
    dups            \* Spec: why rows were inserted for a document that had some

vars == <<pdf, pdfResult, tools, chunkIn, chunkOut, chunkTable, feedbackTable,
          caller, last, nextUuid, dups>>

-----------------------------------------------------------------------------
(* Python values *)

None == [some |-> FALSE]
Some(v) == [some |-> TRUE, val |-> v]

\* A call that returned v, and a call out of which an exception propagated.
Returned(v) == [raised |-> FALSE, value |-> v]
Raised == [raised |-> TRUE]
NotCalled == [op |-> "none"]

-----------------------------------------------------------------------------
(* Strings *)

Run(c, k) == [ch |-> c, n |-> k]
EmptyStr == <<>>
Str(c, k) == IF k = 0 THEN <<>> ELSE <<Run(c, k)>>

NUL == "NUL"
Space == <<Run(" ", 1)>>
IsSpace(c) == c \in {" ", "\n", "\t"}

RECURSIVE Canon(_)
Canon(s) ==
    IF s = <<>> THEN <<>>
    ELSE LET h == Head(s)
             r == Canon(Tail(s))
         IN  IF h.n = 0 THEN r
             ELSE IF r # <<>> /\ r[1].ch = h.ch
                  THEN <<Run(h.ch, h.n + r[1].n)>> \o Tail(r)
                  ELSE <<h>> \o r

Concat(s, t) == Canon(s \o t)

RECURSIVE StrLen(_)
StrLen(s) == IF s = <<>> THEN 0 ELSE Head(s).n + StrLen(Tail(s))

\* str.replace(old, new) for a one-character old; new is a character or "".
Replace(s, old, new) ==
    Canon([i \in 1..Len(s) |->
             IF s[i].ch = old
             THEN (IF new = "" THEN Run(old, 0) ELSE Run(new, s[i].n))
             ELSE s[i]])

RECURSIVE LStrip(_)
LStrip(s) ==
    IF s # <<>> /\ IsSpace(Head(s).ch) THEN LStrip(Tail(s)) ELSE s

RECURSIVE RStrip(_)
RStrip(s) ==
    IF s # <<>> /\ IsSpace(s[Len(s)].ch) THEN RStrip(SubSeq(s, 1, Len(s) - 1)) ELSE s

Strip(s) == RStrip(LStrip(s))

\* str.startswith, on canonical strings.
StartsWith(s, p) ==
    \/ p = <<>>
    \/ /\ Len(s) >= Len(p)
       /\ \A i \in 1..(Len(p) - 1) : s[i] = p[i]
       /\ s[Len(p)].ch = p[Len(p)].ch
       /\ s[Len(p)].n >= p[Len(p)].n

\* s[k:]
RECURSIVE DropChars(_, _)
DropChars(s, k) ==
    IF k <= 0 \/ s = <<>> THEN s
    ELSE IF Head(s).n <= k THEN DropChars(Tail(s), k - Head(s).n)
         ELSE <<Run(Head(s).ch, Head(s).n - k)>> \o Tail(s)

\* bool(s.strip()) is False
IsBlank(s) == Strip(s) = <<>>

-----------------------------------------------------------------------------
(* pdf_reader *)

MinTextLength == 1500

\* f"{metadata.title or ''} {metadata.author or ''}".strip() if metadata else ""
MetadataText(metadata) ==
    IF ~metadata.some THEN EmptyStr
    ELSE LET title == IF metadata.val.title.some THEN metadata.val.title.val ELSE EmptyStr
             author == IF metadata.val.author.some THEN metadata.val.author.val ELSE EmptyStr
         IN  Strip(Concat(Concat(title, Str(" ", 1)), author))

\* Lines 94-97: the text one page contributes, before the trailing space.
CleanPage(page_text, metadata_text) ==
    LET t == Replace(Replace(page_text, "\n", " "), NUL, "")
    IN  IF metadata_text # <<>> /\ StartsWith(t, metadata_text)
        THEN Strip(DropChars(t, StrLen(metadata_text)))
        ELSE t

\* The loop of lines 90-104 from page i on.
RECURSIVE ReadPages(_, _, _, _, _)
ReadPages(pages, metadata_text, i, text, page_breaks) ==
    IF i > Len(pages) THEN [text |-> text, page_breaks |-> page_breaks]
    ELSE IF pages[i].raises \/ pages[i].text = <<>>
         THEN ReadPages(pages, metadata_text, i + 1, text, page_breaks)
         ELSE LET t == Concat(Concat(text, CleanPage(pages[i].text, metadata_text)),
                              Str(" ", 1))
              IN  ReadPages(pages, metadata_text, i + 1, t,
                            Append(page_breaks, StrLen(t)))

\* Line 106.
TooShortMutant(text) == IsBlank(text) \/ StrLen(text) <= MinTextLength
TooShort(text) == IsBlank(text) \/ StrLen(text) < MinTextLength

pdf_reader(f) ==
    IF f.fault \in {"open", "parse"}
    THEN Returned(<<None, None>>)                      \* except of lines 80-82
    ELSE IF f.fault = "metadata" THEN Raised           \* lines 84-85, outside any try
    ELSE IF f.fault = "pages" THEN Raised              \* line 90, outside the page's try
    ELSE LET acc == ReadPages(f.pages, MetadataText(f.metadata), 1, EmptyStr, <<0>>)
         IN  IF TooShort(acc.text)
             THEN Returned(<<None, None>>)
             ELSE Returned(<<Some(acc.text), Some(acc.page_breaks)>>)

(* The files pdf_reader is run on. *)
MaxPages == 2

Title == Str("T", 3)
Author == Str("A", 2)
Metadatas ==
    { None,
      Some([title |-> Some(Title), author |-> Some(Author)]),
      Some([title |-> Some(Title), author |-> None]),
      Some([title |-> None, author |-> None]) }

Body(k) == Str("x", k)
PageTexts ==
    { EmptyStr,
      Body(MinTextLength - 2), Body(MinTextLength - 1), Body(MinTextLength),
      Body(MinTextLength \div 2),
      Concat(Title, Concat(Str(" ", 1), Concat(Author, Concat(Str("\n", 1), Body(MinTextLength - 6))))),
      Concat(Title, Concat(Str(" ", 2), Body(MinTextLength))),
      Concat(Body(MinTextLength - 10), Str(NUL, 10)),
      Concat(Body(MinTextLength \div 2), Concat(Str("\n", 1), Body(MinTextLength \div 2))),
      Str("\n", 2),
      Str(" ", MinTextLength),
      Str(NUL, 3) }

Pages == { [raises |-> TRUE, text |-> EmptyStr] }
         \cup { [raises |-> FALSE, text |-> t] : t \in PageTexts }

PageLists == UNION { [1..k -> Pages] : k \in 0..MaxPages }

PdfFaults == {"none", "open", "parse", "metadata", "pages"}

PdfFiles == [fault : PdfFaults, metadata : Metadatas, pages : PageLists]

NoPdf == [fault |-> "none", metadata |-> None, pages |-> <<>>]

-----------------------------------------------------------------------------
(* get_embedding and get_embedding_batch *)

\* The vector the embedding service computes for a text (floats kept as integers).
ServiceVector(text) == <<StrLen(text), Len(text)>>

EmbedFaults == {"none", "call_raises", "no_embedding_key"}
BatchFaults == {"none", "call_raises", "no_embeddings_key", "item_no_embedding"}

\* Lines 115-116: the body of the try.  exc: an exception was thrown inside it.
EmbedTry(text, fault) ==
    IF fault = "call_raises" THEN [exc |-> TRUE]
    ELSE IF fault = "no_embedding_key" THEN [exc |-> FALSE, value |-> <<>>]
    ELSE [exc |-> FALSE, value |-> ServiceVector(text)]

get_embedding(text, fault) ==
    LET t == EmbedTry(text, fault)
    IN  IF t.exc THEN Returned(<<>>) ELSE Returned(t.value)

\* Lines 138-142: the body of the try.  response["embeddings"] raises KeyError when
\* the key is missing, r["embedding"] raises it for the first item without the field.
BatchTry(chunk_texts, fault) ==
    IF fault = "call_raises" THEN [exc |-> TRUE]
    ELSE IF fault = "no_embeddings_key" THEN [exc |-> TRUE]
    ELSE IF fault = "item_no_embedding" /\ Len(chunk_texts) > 0 THEN [exc |-> TRUE]
    ELSE [exc |-> FALSE,
          value |-> [i \in 1..Len(chunk_texts) |-> ServiceVector(chunk_texts[i])]]

\* What the except clause of lines 143-145 returns.
BatchExceptMutant(chunk_texts) == <<>>
BatchExcept(chunk_texts) == [i \in 1..Len(chunk_texts) |-> <<>>]

\* requests: the batched requests sent to the service, each the list of its texts.
get_embedding_batch(chunk_texts, fault) ==
    LET t == BatchTry(chunk_texts, fault)
    IN  [raised |-> FALSE,
         value |-> IF t.exc THEN BatchExcept(chunk_texts) ELSE t.value,
         requests |-> <<chunk_texts>>]

-----------------------------------------------------------------------------
(* text_chunker *)

\* re.sub(r"\s+", " ", text)
RECURSIVE CollapseWhitespace(_)
CollapseWhitespace(s) ==
    IF s = <<>> THEN <<>>
    ELSE IF IsSpace(Head(s).ch)
         THEN <<Run(" ", 1)>> \o CollapseWhitespace(LStrip(Tail(s)))
         ELSE <<Head(s)>> \o CollapseWhitespace(Tail(s))

\* Line 150.
Normalize(text) == Strip(CollapseWhitespace(text))

\* re.split(separator, text) for a one-character separator, the empty pieces
\* dropped: cur is the piece being read.
RECURSIVE SplitOn(_, _, _)
SplitOn(s, sep, cur) ==
    IF s = <<>> THEN (IF cur = <<>> THEN <<>> ELSE <<cur>>)
    ELSE IF Head(s).ch = sep
         THEN (IF cur = <<>> THEN <<>> ELSE <<cur>>) \o SplitOn(Tail(s), sep, <<>>)
         ELSE SplitOn(Tail(s), sep, Append(cur, Head(s)))

\* separator.join(docs)
RECURSIVE Join(_, _)
Join(docs, separator) ==
    IF docs = <<>> THEN EmptyStr
    ELSE IF Len(docs) = 1 THEN docs[1]
    ELSE Concat(Concat(docs[1], separator), Join(Tail(docs), separator))

\* TextSplitter._join_docs: the joined text stripped, None when it is empty.
JoinDocs(docs, separator) ==
    LET text == Strip(Join(docs, separator))
    IN  IF text = <<>> THEN None ELSE Some(text)

\* A loop that never pops: the whole chunk is carried into the next one.
PopFrontMutant(current_doc, total, len, separator_len, chunk_size, chunk_overlap) ==
    [current_doc |-> current_doc, total |-> total]

\* The while loop of TextSplitter._merge_splits: pop words off the front of
\* current_doc until what is left fits the overlap and leaves room for the word.
RECURSIVE PopFront(_, _, _, _, _, _)
PopFront(current_doc, total, len, separator_len, chunk_size, chunk_overlap) ==
    IF \/ total > chunk_overlap
       \/ /\ total + len + (IF Len(current_doc) > 0 THEN separator_len ELSE 0) > chunk_size
          /\ total > 0
    THEN PopFront(Tail(current_doc),
                  total - (StrLen(Head(current_doc))
                           + (IF Len(current_doc) > 1 THEN separator_len ELSE 0)),
                  len, separator_len, chunk_size, chunk_overlap)
    ELSE [current_doc |-> current_doc, total |-> total]

\* TextSplitter._merge_splits from split i on.  st.docs: the chunks emitted, each
\* with its words and with carried, the number of its leading words that the
\* loop kept from the chunk before it; st.carry: that number for the chunk
\* being built.
RECURSIVE MergeSplits(_, _, _, _, _, _)
MergeSplits(splits, i, st, separator, chunk_size, chunk_overlap) ==
    LET separator_len == StrLen(separator) IN
    IF i > Len(splits)
    THEN LET doc == JoinDocs(st.current_doc, separator)
         IN  IF doc.some
             THEN Append(st.docs, [text |-> doc.val, words |-> st.current_doc,
                                   carried |-> st.carry])
             ELSE st.docs
    ELSE LET d == splits[i]
             len == StrLen(d)
             over == st.total + len
                     + (IF Len(st.current_doc) > 0 THEN separator_len ELSE 0) > chunk_size
             emit == over /\ Len(st.current_doc) > 0
             doc == JoinDocs(st.current_doc, separator)
             docs == IF emit /\ doc.some
                     THEN Append(st.docs, [text |-> doc.val, words |-> st.current_doc,
                                           carried |-> st.carry])
                     ELSE st.docs
             kept == IF emit
                     THEN PopFront(st.current_doc, st.total, len, separator_len,
                                   chunk_size, chunk_overlap)
                     ELSE [current_doc |-> st.current_doc, total |-> st.total]
             current_doc == Append(kept.current_doc, d)
         IN  MergeSplits(splits, i + 1,
                 [docs |-> docs,
                  current_doc |-> current_doc,
                  total |-> kept.total + len
                            + (IF Len(current_doc) > 1 THEN separator_len ELSE 0),
                  carry |-> IF emit THEN Len(kept.current_doc) ELSE st.carry],
                 separator, chunk_size, chunk_overlap)

\* A merge that forgets the chunk still being built when the words run out.
SplitTextMutant(text, separator, chunk_size, chunk_overlap) ==
    LET docs == MergeSplits(SplitOn(text, separator[1].ch, <<>>), 1,
                    [docs |-> <<>>, current_doc |-> <<>>, total |-> 0, carry |-> 0],
                    separator, chunk_size, chunk_overlap)
    IN  IF docs = <<>> THEN docs ELSE SubSeq(docs, 1, Len(docs) - 1)

\* CharacterTextSplitter(separator, chunk_size, chunk_overlap).split_text(text),
\* keep_separator False: split on the separator, merge the pieces.
SplitText(text, separator, chunk_size, chunk_overlap) ==
    MergeSplits(SplitOn(text, separator[1].ch, <<>>), 1,
                [docs |-> <<>>, current_doc |-> <<>>, total |-> 0, carry |-> 0],
                separator, chunk_size, chunk_overlap)

\* One uuid4() drawn for the whole table instead of one per chunk.
DataFrameMutant(uuids, chunks, embeddings, document_names) ==
    IF Len(embeddings) # Len(chunks) THEN Raised
    ELSE Returned([i \in 1..Len(chunks) |->
                      [uuid |-> uuids[1], chunk |-> chunks[i],
                       embedding |-> embeddings[i],
                       document_name |-> document_names[i]]])

\* Lines 160-165: pandas refuses columns of different lengths (ValueError).
DataFrame(uuids, chunks, embeddings, document_names) ==
    IF Len(embeddings) # Len(chunks) THEN Raised
    ELSE Returned([i \in 1..Len(chunks) |->
                      [uuid |-> uuids[i], chunk |-> chunks[i],
                       embedding |-> embeddings[i],
                       document_name |-> document_names[i]]])

\* uuid0: the number of uuid4() values drawn before the call; uuid4() is modelled
\* as a fresh value each time it is called.
text_chunker(text, document_name, chunk_size, overlap, fault, uuid0) ==
    LET normalized == Normalize(text) IN
    IF overlap > chunk_size
    THEN [raised |-> TRUE, requests |-> <<>>, normalized |-> normalized, docs |-> <<>>,
          value |-> <<>>]                 \* TextSplitter.__init__ raises ValueError
    ELSE LET docs == SplitText(normalized, Str(" ", 1), chunk_size, overlap)
             chunks == [i \in 1..Len(docs) |-> docs[i].text]
             emb == get_embedding_batch(chunks, fault)
             df == DataFrame([i \in 1..Len(chunks) |-> uuid0 + i], chunks, emb.value,
                             [i \in 1..Len(chunks) |-> document_name])
         IN  [raised |-> df.raised, requests |-> emb.requests,
              normalized |-> normalized, docs |-> docs,
              value |-> IF df.raised THEN <<>> ELSE df.value]

-----------------------------------------------------------------------------
(* The warehouse: document_exists, push_df_to_db, push_feedback *)

ExistsFaults == {"none", "config_raises", "query_raises", "result_raises",
                 "next_raises", "no_row"}
InsertFaults == {"none", "row_errors", "client_raises"}

\* A query that compares the wrong column.
QueryExistsMutant(table, document_name) ==
    \E i \in 1..Len(table) : table[i].CHUNK = document_name

\* Lines 51-56: EXISTS(SELECT 1 FROM table WHERE DOCUMENT_NAME = @document_name)
QueryExists(table, document_name) ==
    \E i \in 1..Len(table) : table[i].DOCUMENT_NAME = document_name

\* Lines 58-66: the body of the try.  exc: an exception was thrown inside it.
ExistsTry(table, document_name, fault) ==
    IF fault \in {"config_raises", "query_raises", "result_raises", "next_raises"}
    THEN [exc |-> TRUE]
    ELSE IF fault = "no_row" THEN [exc |-> FALSE, value |-> FALSE]
    ELSE [exc |-> FALSE, value |-> QueryExists(table, document_name)]

\* An except clause that logs and raises again.
ExistsExceptMutant == Raised
\* Lines 67-69.
ExistsExcept == Returned(FALSE)

document_exists(table, document_name, fault) ==
    LET t == ExistsTry(table, document_name, fault)
    IN  IF t.exc THEN ExistsExcept ELSE Returned(t.value)

\* json.dumps of a list of numbers: its text, kept as the tagged list.
JsonDumps(v) == <<"json", v>>

\* Client.insert_rows_json: one streaming insert of all rows.  It returns the
\* list of row errors (no row is written when there is one) or raises.
InsertRowsJson(table, rows, fault) ==
    IF fault = "client_raises" THEN [raised |-> TRUE, table |-> table]
    ELSE IF fault = "row_errors"
         THEN [raised |-> FALSE, errors |-> <<"invalid">>, table |-> table]
         ELSE [raised |-> FALSE, errors |-> <<>>, table |-> table \o rows]

\* What the caller of a push sees, and the tables after it.
PushResult(ins, rows, chunks, feedback) ==
    [raised |-> ins.raised,
     printed |-> IF ins.raised THEN "nothing"
                 ELSE IF ins.errors # <<>> THEN "failed" ELSE "inserted",
     inserts |-> <<rows>>,
     chunkTable |-> chunks,
     feedbackTable |-> feedback]

push_df_to_db(df, document_name, chunks, feedback, fault) ==
    LET rows == [i \in 1..Len(df) |->
                    [UUID |-> df[i].uuid, CHUNK |-> df[i].chunk,
                     EMBEDDING |-> JsonDumps(df[i].embedding),
                     DOCUMENT_NAME |-> df[i].document_name]]
        ins == InsertRowsJson(chunks, rows, fault)
    IN  PushResult(ins, rows, ins.table, feedback)

FeedbackRows(df) ==
    [i \in 1..Len(df) |->
        [RATING |-> df[i].rating, NOTES |-> df[i].notes,
         QUESTION |-> df[i].question, ANSWER |-> df[i].answer,
         DOCUMENT_NAME |-> df[i].document_name]]

\* The insert sent to self.table_ref instead of self.feedback_table_ref.
push_feedbackMutant(df, chunks, feedback, fault) ==
    LET ins == InsertRowsJson(chunks, FeedbackRows(df), fault)
    IN  PushResult(ins, FeedbackRows(df), ins.table, feedback)

push_feedback(df, chunks, feedback, fault) ==
    LET ins == InsertRowsJson(feedback, FeedbackRows(df), fault)
    IN  PushResult(ins, FeedbackRows(df), chunks, ins.table)

-----------------------------------------------------------------------------
(* The state outside the component a specification exercises. *)

Callers == {1, 2}
IdleCaller == [pc |-> "idle", name |-> "", df |-> <<>>,
               check |-> [failed |-> FALSE, present |-> FALSE]]

PdfIdle == pdf = NoPdf /\ pdfResult = NotCalled
ChunkIdle == chunkIn = [words |-> <<>>, text |-> EmptyStr, document_name |-> ""]
             /\ chunkOut = NotCalled
WarehouseIdle ==
    /\ chunkTable = <<>>
    /\ feedbackTable = <<>>
    /\ caller = [c \in Callers |-> IdleCaller]
    /\ last = NotCalled
    /\ nextUuid = 0
    /\ dups = {}

DefaultTools == [chunk_size |-> 3, overlap |-> 1]

-----------------------------------------------------------------------------
(* SpecPdf: pdf_reader applied to every file of PdfFiles. *)

InitPdf ==
    /\ pdf \in PdfFiles
    /\ pdfResult = NotCalled
    /\ tools = DefaultTools
    /\ ChunkIdle
    /\ WarehouseIdle

PdfReader ==
    /\ pdfResult = NotCalled
    /\ pdfResult' = [op |-> "pdf_reader", r |-> pdf_reader(pdf)]
    /\ UNCHANGED <<pdf, tools, chunkIn, chunkOut, chunkTable, feedbackTable,
                   caller, last, nextUuid, dups>>

NextPdf == PdfReader

SpecPdf == InitPdf /\ [][NextPdf]_vars

-----------------------------------------------------------------------------
(* SpecChunk: text_chunker and get_embedding_batch applied to every text of *)
(* Texts under every configuration of Configs and every service outcome.    *)

MaxWords == 4
MaxChunkSize == 3

WordChoices == { Str("a", 1), Str("b", 2), Concat(Str("a", 2), Str("b", 2)) }
WordLists == UNION { [1..k -> WordChoices] : k \in 0..MaxWords }
Gaps == { Str(" ", 1), <<Run(" ", 1), Run("\n", 2), Run("\t", 1)>> }

\* The words separated by gap, with whitespace around the whole when pad.
MakeText(words, gap, pad) ==
    Concat(Concat(IF pad THEN Str("\n", 1) ELSE EmptyStr, Join(words, gap)),
           IF pad THEN Str(" ", 2) ELSE EmptyStr)

Names == {"doc1", "doc2"}

ChunkInputs ==
    { [words |-> w, text |-> MakeText(w, g, p), document_name |-> d] :
        w \in WordLists, g \in Gaps, p \in BOOLEAN, d \in Names }

Configs ==
    { [chunk_size |-> c, overlap |-> o] :
        c \in 1..MaxChunkSize, o \in 0..(MaxChunkSize + 1) }

InitChunk ==
    /\ tools \in { t \in Configs : t.overlap <= t.chunk_size + 1 }
    /\ chunkIn \in ChunkInputs
    /\ chunkOut = NotCalled
    /\ PdfIdle
    /\ WarehouseIdle

TextChunker ==
    /\ chunkOut = NotCalled
    /\ \E fault \in BatchFaults :
         chunkOut' = [op |-> "text_chunker", fault |-> fault,
                      r |-> text_chunker(chunkIn.text, chunkIn.document_name,
                                         tools.chunk_size, tools.overlap, fault, 0)]
    /\ UNCHANGED <<pdf, pdfResult, tools, chunkIn, chunkTable, feedbackTable,
                   caller, last, nextUuid, dups>>

\* get_embedding_batch called directly, on the words of the text.
GetEmbeddingBatch ==
    /\ chunkOut = NotCalled
    /\ \E fault \in BatchFaults :
         chunkOut' = [op |-> "get_embedding_batch", fault |-> fault,
                      r |-> get_embedding_batch(chunkIn.words, fault)]
    /\ UNCHANGED <<pdf, pdfResult, tools, chunkIn, chunkTable, feedbackTable,
                   caller, last, nextUuid, dups>>

NextChunk == TextChunker \/ GetEmbeddingBatch

SpecChunk == InitChunk /\ [][NextChunk]_vars

-----------------------------------------------------------------------------
(* SpecWarehouse: document_exists, push_df_to_db and push_feedback applied  *)
(* once to every table of SampleTables, under every outcome of the client.  *)

MaxTableRows == 3

\* A chunk table: row i was written for document names[i].
TableOf(names) ==
    [i \in 1..Len(names) |->
        [UUID |-> i, CHUNK |-> Str("a", i), EMBEDDING |-> JsonDumps(<<>>),
         DOCUMENT_NAME |-> names[i]]]

SampleTables == { TableOf(n) : n \in UNION { [1..k -> Names] : k \in 0..MaxTableRows } }

SampleFrames ==
    { [i \in 1..k |-> [uuid |-> 10 + i, chunk |-> Str("b", i), embedding |-> e,
                       document_name |-> d]] :
        k \in 0..2, e \in {<<>>, <<1, 2>>}, d \in Names }

FeedbackFrames ==
    { <<[rating |-> "5", notes |-> "", question |-> "q", answer |-> "a",
         document_name |-> "doc1"]>>,
      <<[rating |-> "1", notes |-> "n", question |-> "q", answer |-> "a",
         document_name |-> "doc2"],
        [rating |-> "1", notes |-> "n", question |-> "q", answer |-> "a",
         document_name |-> "doc2"]>> }

InitWarehouse ==
    /\ chunkTable \in SampleTables
    /\ feedbackTable \in { <<>>, FeedbackRows(CHOOSE f \in FeedbackFrames : Len(f) = 1) }
    /\ last = NotCalled
    /\ caller = [c \in Callers |-> IdleCaller]
    /\ nextUuid = 0
    /\ dups = {}
    /\ tools = DefaultTools
    /\ PdfIdle
    /\ ChunkIdle

DocumentExists ==
    /\ last = NotCalled
    /\ \E name \in Names, fault \in ExistsFaults :
         last' = [op |-> "document_exists", name |-> name, fault |-> fault,
                  before |-> <<chunkTable, feedbackTable>>,
                  r |-> document_exists(chunkTable, name, fault)]
    /\ UNCHANGED <<pdf, pdfResult, tools, chunkIn, chunkOut, chunkTable,
                   feedbackTable, caller, nextUuid, dups>>

PushDfToDb ==
    /\ last = NotCalled
    /\ \E df \in SampleFrames, fault \in InsertFaults :
         LET r == push_df_to_db(df, IF df = <<>> THEN "doc1" ELSE df[1].document_name,
                                chunkTable, feedbackTable, fault)
         IN
         /\ chunkTable' = r.chunkTable
         /\ feedbackTable' = r.feedbackTable
         /\ last' = [op |-> "push_df_to_db", df |-> df, fault |-> fault,
                     before |-> <<chunkTable, feedbackTable>>,
                     r |-> [raised |-> r.raised, printed |-> r.printed,
                            inserts |-> r.inserts]]
    /\ UNCHANGED <<pdf, pdfResult, tools, chunkIn, chunkOut, caller, nextUuid, dups>>

PushFeedbackOnce ==
    /\ last = NotCalled
    /\ \E df \in FeedbackFrames, fault \in InsertFaults :
         LET r == push_feedback(df, chunkTable, feedbackTable, fault) IN
         /\ chunkTable' = r.chunkTable
         /\ feedbackTable' = r.feedbackTable
         /\ last' = [op |-> "push_feedback", df |-> df, fault |-> fault,
                     before |-> <<chunkTable, feedbackTable>>,
                     r |-> [raised |-> r.raised, printed |-> r.printed,
                            inserts |-> r.inserts]]
    /\ UNCHANGED <<pdf, pdfResult, tools, chunkIn, chunkOut, caller, nextUuid, dups>>

NextWarehouse == DocumentExists \/ PushDfToDb \/ PushFeedbackOnce

SpecWarehouse == InitWarehouse /\ [][NextWarehouse]_vars

-----------------------------------------------------------------------------
(* Spec: callers of one Tools instance.  Each caller runs the ingestion       *)
(* sequence of a document (document_exists, and when it answers False,        *)
(* text_chunker and then push_df_to_db); feedback is pushed and the           *)
(* extraction and embedding operations are called at any time.  Every call is *)
(* one blocking request, so calls of different callers interleave as wholes.  *)

MaxRows == 6
MaxUuids == 6
MaxFeedbackRows == 2

\* The document the callers ingest, and the text extracted for each document.
Documents == {"doc1"}

\* The text extracted for each document.
DocWords(name) ==
    IF name = "doc1" THEN <<Str("a", 1), Str("b", 2)>>
    ELSE <<Concat(Str("a", 2), Str("b", 1))>>
DocText(name) == MakeText(DocWords(name), <<Run(" ", 1), Run("\n", 2), Run("\t", 1)>>, TRUE)

SamplePdfs ==
    { [fault |-> f, metadata |-> None,
       pages |-> <<[raises |-> FALSE, text |-> Body(MinTextLength)]>>] :
         f \in {"none", "open", "pages"} }

\* Rows of the table written for the document, whatever a query answers.
HasRows(table, name) == \E i \in 1..Len(table) : table[i].DOCUMENT_NAME = name

Init ==
    /\ tools = DefaultTools
    /\ PdfIdle
    /\ ChunkIdle
    /\ WarehouseIdle

\* The first step of an ingestion: the caller goes on only when the answer is
\* False.  check: whether the query failed and whether rows were there.
IngestCheck(c) ==
    /\ caller[c].pc = "idle"
    /\ \E name \in Documents :
         \E o \in { [failed |-> fault # "none",
                     r |-> document_exists(chunkTable, name, fault)] :
                         fault \in ExistsFaults } :
            caller' = [caller EXCEPT ![c] =
                IF ~o.r.raised /\ o.r.value = FALSE
                THEN [pc |-> "checked", name |-> name, df |-> <<>>,
                      check |-> [failed |-> o.failed,
                                 present |-> HasRows(chunkTable, name)]]
                ELSE IdleCaller]
    /\ UNCHANGED <<pdf, pdfResult, tools, chunkIn, chunkOut, chunkTable,
                   feedbackTable, last, nextUuid, dups>>

IngestChunk(c) ==
    /\ caller[c].pc = "checked"
    /\ nextUuid < MaxUuids
    /\ \E r \in { text_chunker(DocText(caller[c].name), caller[c].name,
                               tools.chunk_size, tools.overlap, fault, nextUuid) :
                      fault \in BatchFaults } :
         /\ caller' = [caller EXCEPT ![c].pc = IF r.raised THEN "idle" ELSE "chunked",
                                     ![c].df = r.value]
         /\ nextUuid' = nextUuid + Len(r.value)
    /\ UNCHANGED <<pdf, pdfResult, tools, chunkIn, chunkOut, chunkTable,
                   feedbackTable, last, dups>>

\* dups: why an insert added rows for a document that already had some: the
\* caller's query failed with the rows there, or the rows came after its query.
IngestPush(c) ==
    /\ caller[c].pc = "chunked"
    /\ Len(chunkTable) + Len(caller[c].df) <= MaxRows
    /\ \E r \in { push_df_to_db(caller[c].df, caller[c].name, chunkTable,
                                feedbackTable, fault) : fault \in InsertFaults } :
         /\ chunkTable' = r.chunkTable
         /\ feedbackTable' = r.feedbackTable
         /\ dups' =
                IF r.chunkTable # chunkTable /\ HasRows(chunkTable, caller[c].name)
                THEN dups \cup { IF caller[c].check.present /\ caller[c].check.failed
                                 THEN "query_failed"
                                 ELSE IF ~caller[c].check.present THEN "race"
                                 ELSE "unguarded" }
                ELSE dups
    /\ caller' = [caller EXCEPT ![c] = IdleCaller]
    /\ UNCHANGED <<pdf, pdfResult, tools, chunkIn, chunkOut, last, nextUuid>>

PushFeedback ==
    /\ \E df \in FeedbackFrames :
         /\ Len(feedbackTable) + Len(df) <= MaxFeedbackRows
         /\ \E r \in { push_feedback(df, chunkTable, feedbackTable, fault) :
                          fault \in InsertFaults } :
              /\ chunkTable' = r.chunkTable
              /\ feedbackTable' = r.feedbackTable
    /\ UNCHANGED <<pdf, pdfResult, tools, chunkIn, chunkOut, caller, last, nextUuid,
                   dups>>

\* pdf_reader, get_embedding and get_embedding_batch have no access to a table:
\* whatever their input and outcome, the caller gets a result or an exception
\* and nothing else changes.
ExtractPdf ==
    /\ \A f \in SamplePdfs : pdf_reader(f).raised \in BOOLEAN
    /\ UNCHANGED vars

Embed ==
    /\ \A name \in Names, fault \in EmbedFaults :
         get_embedding(DocText(name), fault).raised \in BOOLEAN
    /\ UNCHANGED vars

EmbedBatch ==
    /\ \A name \in Names, fault \in BatchFaults :
         get_embedding_batch(DocWords(name), fault).raised \in BOOLEAN
    /\ UNCHANGED vars

Next ==
    \/ \E c \in Callers : IngestCheck(c)
    \/ \E c \in Callers : IngestChunk(c)
    \/ \E c \in Callers : IngestPush(c)
    \/ PushFeedback
    \/ ExtractPdf
    \/ Embed
    \/ EmbedBatch

Spec == Init /\ [][Next]_vars

-----------------------------------------------------------------------------
(* Claims about pdf_reader (SpecPdf) *)

PdfCalled == pdfResult.op = "pdf_reader"

\* Pages whose extraction returned a non-empty text.
TextPages(f) == { i \in 1..Len(f.pages) : ~f.pages[i].raises /\ f.pages[i].text # <<>> }

\* Characters of the pages in S: as extracted, or (cleaned) as each page is
\* appended to the text, one space after it.
RECURSIVE PageChars(_, _, _)
PageChars(f, S, cleaned) ==
    IF S = {} THEN 0
    ELSE LET i == CHOOSE j \in S : TRUE
         IN  (IF cleaned
              THEN StrLen(CleanPage(f.pages[i].text, MetadataText(f.metadata))) + 1
              ELSE StrLen(f.pages[i].text))
             + PageChars(f, S \ {i}, cleaned)

ExtractedLen(f) == PageChars(f, TextPages(f), FALSE)
CleanedLen(f) == PageChars(f, TextPages(f), TRUE)

CleanedBlank(f) ==
    \A i \in TextPages(f) : IsBlank(CleanPage(f.pages[i].text, MetadataText(f.metadata)))

\* C2: no exception reaches the caller of pdf_reader, whatever fails (open, parser,
\* metadata, page enumeration, a page's extraction), and the two components of the
\* result are None together or non-None together.
C2_NoExceptionEscapes ==
    PdfCalled =>
        /\ ~pdfResult.r.raised
        /\ pdfResult.r.value[1].some <=> pdfResult.r.value[2].some

\* C3 as stated, for files the statement surely covers: the file opens and reads
\* without any exception, its pages extract to at least 1500 characters, and every
\* page with text has visible text and no null byte.  Such a file yields a text
\* and 1 + (pages with text) page breaks.
C3_LongTextAccepted ==
    (/\ PdfCalled
     /\ pdf.fault = "none"
     /\ ExtractedLen(pdf) >= MinTextLength
     /\ \A i \in TextPages(pdf) :
           /\ ~IsBlank(pdf.pages[i].text)
           /\ \A k \in 1..Len(pdf.pages[i].text) : pdf.pages[i].text[k].ch # NUL) =>
        /\ ~pdfResult.r.raised
        /\ pdfResult.r.value[1].some
        /\ pdfResult.r.value[1].val # EmptyStr
        /\ pdfResult.r.value[2].some
        /\ Len(pdfResult.r.value[2].val) = 1 + Cardinality(TextPages(pdf))

\* C3 amended: the threshold is applied to the cleaned text.  pdf_reader returns a
\* text only when the cleaned pages, one space after each, make at least 1500
\* characters that are not all whitespace; every text it returns is that cleaned
\* text with 1 + (pages with text) page breaks, the last one its length; and a file
\* whose open, parse, metadata and page list raise nothing gets a text exactly then.
C3_CleanedTextAccepted ==
    PdfCalled =>
        /\ (~pdfResult.r.raised /\ pdfResult.r.value[1].some) =>
              LET text == pdfResult.r.value[1].val
                  page_breaks == pdfResult.r.value[2].val
              IN  /\ text # EmptyStr
                  /\ ~IsBlank(text)
                  /\ StrLen(text) >= MinTextLength
                  /\ StrLen(text) = CleanedLen(pdf)
                  /\ Len(page_breaks) = 1 + Cardinality(TextPages(pdf))
                  /\ page_breaks[1] = 0
                  /\ page_breaks[Len(page_breaks)] = StrLen(text)
        /\ pdf.fault = "none" =>
              /\ ~pdfResult.r.raised
              /\ pdfResult.r.value[1].some <=>
                    (CleanedLen(pdf) >= MinTextLength /\ ~CleanedBlank(pdf))

\* A file with a page whose extraction raises and a page whose metadata prefix is
\* stripped, still long enough to be accepted.
C3_Witness ==
    /\ PdfCalled
    /\ ~pdfResult.r.raised
    /\ pdfResult.r.value[1].some
    /\ \E i \in 1..Len(pdf.pages) : pdf.pages[i].raises
    /\ \E i \in TextPages(pdf) :
          /\ MetadataText(pdf.metadata) # EmptyStr
          /\ StartsWith(pdf.pages[i].text, MetadataText(pdf.metadata))

-----------------------------------------------------------------------------
(* Claims about text_chunker and get_embedding_batch (SpecChunk) *)

ChunkerCalled == chunkOut.op = "text_chunker"
ChunkerReturned == ChunkerCalled /\ ~chunkOut.r.raised
BatchCalled == chunkOut.op = "get_embedding_batch"

\* The words of a chunk that are not repeated from the chunk before it.
NewWords(doc) == SubSeq(doc.words, doc.carried + 1, Len(doc.words))

RECURSIVE AllNewWords(_)
AllNewWords(docs) ==
    IF docs = <<>> THEN <<>> ELSE NewWords(Head(docs)) \o AllNewWords(Tail(docs))

\* The characters of a chunk that repeat the end of the chunk before it.
Overlap(doc) == Join(SubSeq(doc.words, 1, doc.carried), Space)

\* The chunks one after the other, each without its overlap.
RECURSIVE ConcatWithoutOverlap(_)
ConcatWithoutOverlap(docs) ==
    IF docs = <<>> THEN EmptyStr
    ELSE Concat(DropChars(Head(docs).text, StrLen(Overlap(Head(docs)))),
                ConcatWithoutOverlap(Tail(docs)))

\* The input with its whitespace runs collapsed and its ends stripped: the words
\* it was written from, one space between them.
Normalized == Join(chunkIn.words, Space)

\* C4 as stated: the chunks concatenated in order, each without its overlap with
\* its predecessor, are the whitespace-normalized input.
C4_ConcatReconstructs ==
    ChunkerReturned => ConcatWithoutOverlap(chunkOut.r.docs) = Normalized

\* C4 amended: every chunk is a run of whole words of the normalized text joined by
\* single spaces, it starts with words that end the chunk before it (possibly none)
\* and adds at least one word; the words of all chunks without the repeated ones, in
\* order and joined by single spaces, are the whitespace-normalized input.
C4_WordsReconstruct ==
    ChunkerReturned =>
        LET docs == chunkOut.r.docs IN
        /\ chunkOut.r.normalized = Normalized
        /\ Len(chunkOut.r.value) = Len(docs)
        /\ \A i \in 1..Len(docs) :
              /\ chunkOut.r.value[i].chunk = Join(docs[i].words, Space)
              /\ docs[i].carried < Len(docs[i].words)
              /\ i = 1 => docs[i].carried = 0
              /\ i > 1 =>
                    /\ docs[i].carried <= Len(docs[i - 1].words)
                    /\ SubSeq(docs[i].words, 1, docs[i].carried)
                         = SubSeq(docs[i - 1].words,
                                  Len(docs[i - 1].words) - docs[i].carried + 1,
                                  Len(docs[i - 1].words))
        /\ AllNewWords(docs) = chunkIn.words
        /\ Join(AllNewWords(docs), Space) = Normalized

\* Several chunks, one pair sharing a word and one pair sharing none, from a text
\* with whitespace runs to collapse.
C4_Witness ==
    /\ ChunkerReturned
    /\ chunkIn.text # Normalized
    /\ Len(chunkOut.r.docs) >= 3
    /\ \E i \in 2..Len(chunkOut.r.docs) : chunkOut.r.docs[i].carried > 0
    /\ \E i \in 2..Len(chunkOut.r.docs) : chunkOut.r.docs[i].carried = 0

\* C5 as stated: every chunk is at most chunk_size long and every pair of
\* consecutive chunks, but the pair ending in the last chunk, shares exactly
\* overlap characters.
C5_SizeAndExactOverlap ==
    ChunkerReturned =>
        LET docs == chunkOut.r.docs IN
        /\ \A i \in 1..Len(docs) : StrLen(docs[i].text) <= tools.chunk_size
        /\ \A i \in 2..(Len(docs) - 1) : StrLen(Overlap(docs[i])) = tools.overlap

\* C5 amended: a chunk of more than one word is at most chunk_size long, a chunk is
\* longer only when it is a single word that is itself longer than chunk_size;
\* consecutive chunks share whole words, at most overlap characters of them; and
\* every chunk is a run of consecutive whole words of the input.
C5_SizeUnlessLongWord ==
    ChunkerReturned =>
        LET docs == chunkOut.r.docs IN
        \A i \in 1..Len(docs) :
            LET last_word == Len(AllNewWords(SubSeq(docs, 1, i)))
                first_word == last_word - Len(docs[i].words) + 1
            IN  /\ Len(docs[i].words) > 1 => StrLen(docs[i].text) <= tools.chunk_size
                /\ StrLen(docs[i].text) > tools.chunk_size =>
                      /\ Len(docs[i].words) = 1
                      /\ StrLen(docs[i].words[1]) > tools.chunk_size
                /\ StrLen(Overlap(docs[i])) <= tools.overlap
                /\ first_word >= 1
                /\ last_word <= Len(chunkIn.words)
                /\ docs[i].words = SubSeq(chunkIn.words, first_word, last_word)
                /\ docs[i].text = Join(docs[i].words, Space)

\* A text with a word longer than chunk_size, cut into chunks of which one is that
\* word alone and two others share a word.
C5_Witness ==
    /\ ChunkerReturned
    /\ \E i \in 1..Len(chunkOut.r.docs) :
          StrLen(chunkOut.r.docs[i].text) > tools.chunk_size
    /\ \E i \in 2..Len(chunkOut.r.docs) :
          /\ chunkOut.r.docs[i].carried > 0
          /\ StrLen(Overlap(chunkOut.r.docs[i])) < tools.overlap

\* The batched request failed: the call threw, the response had no "embeddings"
\* list, or an item of it had no "embedding" field.
BatchFailed(fault, texts) ==
    \/ fault \in {"call_raises", "no_embeddings_key"}
    \/ fault = "item_no_embedding" /\ Len(texts) > 0

\* C6: get_embedding_batch never raises, and when the batched request fails it
\* returns one empty vector per input text: all inputs fail together.
C6_BatchFailsTogether ==
    BatchCalled =>
        /\ ~chunkOut.r.raised
        /\ Len(chunkOut.r.requests) = 1
        /\ BatchFailed(chunkOut.fault, chunkIn.words) =>
              /\ Len(chunkOut.r.value) = Len(chunkIn.words)
              /\ \A i \in 1..Len(chunkIn.words) : chunkOut.r.value[i] = <<>>

C6_Witness ==
    /\ BatchCalled
    /\ chunkOut.fault = "item_no_embedding"
    /\ Len(chunkIn.words) >= 2
    /\ Len(chunkOut.r.value) = Len(chunkIn.words)

-----------------------------------------------------------------------------
(* Claims about the warehouse operations (SpecWarehouse) *)

IsPrefix(s, t) == Len(s) <= Len(t) /\ SubSeq(t, 1, Len(s)) = s

\* C1: document_exists never raises; it returns False whenever the client throws
\* at any step of the query and when the result has no row, and the row's
\* exists_flag (whether the chunk table has a row of that name) otherwise.
C1_ExistsFailsToFalse ==
    last.op = "document_exists" =>
        /\ ~last.r.raised
        /\ last.r.value = (last.fault = "none" /\ HasRows(chunkTable, last.name))
        /\ <<chunkTable, feedbackTable>> = last.before

\* The client threw while the document's rows were in the table.
C1_Witness ==
    /\ last.op = "document_exists"
    /\ last.fault = "result_raises"
    /\ HasRows(chunkTable, last.name)
    /\ last.r = Returned(FALSE)

\* C8: push_df_to_db and push_feedback issue one insert with all rows of the input
\* table and return normally whether the insert reports row errors or the client
\* itself fails.
C8_PushNeverRaises ==
    last.op \in {"push_df_to_db", "push_feedback"} =>
        /\ Len(last.r.inserts) = 1
        /\ Len(last.r.inserts[1]) = Len(last.df)
        /\ ~last.r.raised

-----------------------------------------------------------------------------
(* Claims about the callers (Spec) *)

RowsOf(name) == { i \in 1..Len(chunkTable) : chunkTable[i].DOCUMENT_NAME = name }

\* C9: both tables are append-only under every operation: rows written stay as
\* they are, in place; document_exists, text_chunker, pdf_reader, get_embedding and
\* get_embedding_batch leave both tables unchanged, push_df_to_db changes only the
\* chunk table and push_feedback only the feedback table.
C9_AppendOnly ==
    [][ /\ IsPrefix(chunkTable, chunkTable')
        /\ IsPrefix(feedbackTable, feedbackTable')
        /\ ((\E c \in Callers : IngestCheck(c) \/ IngestChunk(c))
              \/ ExtractPdf \/ Embed \/ EmbedBatch)
             => (chunkTable' = chunkTable /\ feedbackTable' = feedbackTable)
        /\ (\E c \in Callers : IngestPush(c)) => feedbackTable' = feedbackTable
        /\ PushFeedback => chunkTable' = chunkTable ]_vars

\* Both tables written, the chunk table twice, and an ingestion under way.
C9_Witness ==
    /\ Len(chunkTable) >= 4
    /\ Len(feedbackTable) >= 2
    /\ \E c \in Callers : caller[c].pc = "chunked"

\* C10: the existence check is the only guard against a second ingestion and it
\* does not exclude one.  A caller goes on to chunk and insert exactly when its
\* check answered False, that is when the query failed or found no row of the name
\* at the time of the query; rows inserted for a document that already had rows
\* came from a caller whose query failed with the rows there, or whose query ran
\* before the rows came (two callers both saw False).
C10_CheckIsTheOnlyGuard ==
    /\ \A c \in Callers :
          caller[c].pc \in {"checked", "chunked"} =>
              (caller[c].check.failed \/ ~caller[c].check.present)
    /\ dups \subseteq {"race", "query_failed"}
    /\ \A name \in Documents :
          Cardinality(RowsOf(name)) > Len(DocWords(name)) => dups # {}

\* The chunk table holds more than two full sets of rows of one document: one
\* duplicate came from two callers that both saw False, one from a caller whose
\* query failed after the document was written.
C10_Witness ==
    /\ dups = {"race", "query_failed"}
    /\ \E name \in Documents :
          Cardinality(RowsOf(name)) >= 2 * Len(DocWords(name))

=============================================================================
